---- MODULE Spec2Model ----
(***************************************************************************)
(* SpaceMissionDES: the discrete-event simulation driver                   *)
(* (drivers/simulator.py) and the ConOps / Activity model                  *)
(* (objects/activities.py).                                                *)
(*                                                                         *)
(* The asyncio event loop is modelled by its FIFO ready queue: a task runs *)
(* from one suspension point to the next without interleaving.             *)
(* objects/events.py and objects/vehicles.py are not part of the sources;  *)
(* what the driver uses of them (event ordering, the iteration of the      *)
(* Future Event List, Predicate.check, the vehicle hooks) follows the      *)
(* specification document.                                                 *)
(***************************************************************************)
EXTENDS Integers, Sequences, FiniteSets, TLC

VARIABLES
    instance,         \* number of Simulator instances constructed so far
    initial_vehicles, \* argument of Simulator.run: <<[start_time, vehicle]>>
    vehicles,         \* the Vehicle objects, by name
    entities,         \* Simulator.entities: names of the registered vehicles
    failures,         \* Simulator.failures: the failure log
    future,           \* Simulator.future.events: the heap of the Future Event List
    tasks,            \* Simulator.tasks: the asyncio tasks, in creation order
    predicates,       \* Simulator.predicates: pending predicate-gated events
    clock,            \* Simulator.clock
    success,          \* Simulator.success
    queue_future,     \* Simulator.queue_future: the inbound result channel
    ready,            \* the event loop's ready queue (indices into tasks)
    fired,            \* ids of the events whose flag has been set()
    event,            \* process_events: the loop variable, the event popped last
    new_event,        \* process_events: the result received last
    lastScan,         \* process_events: the entries the last re-scan was given / checked
    pc,               \* position of process_events
    runState,         \* position / outcome of Simulator.run
    nextId,           \* identity of the next event object constructed
    pushCount         \* number of pushes onto the Future Event List

vars == <<instance, initial_vehicles, vehicles, entities, failures, future, tasks,
          predicates, clock, success, queue_future, ready, fired, event,
          new_event, lastScan, pc, runState, nextId, pushCount>>

simVars == <<instance, initial_vehicles, vehicles, entities, failures, tasks,
             predicates, clock, success, queue_future, ready, fired,
             new_event, lastScan, pc, runState>>

-----------------------------------------------------------------------------
(* Bounds of the model *)

Scale == 4        \* a uniform draw u in [0,1) is u/Scale, u in 0..Scale-1
MaxDur == 2       \* the non-zero activity duration
LateStart == 5    \* start time of the second vehicle when it starts late
PropLoad0 == 3    \* initial propload of a vehicle
MaxPush == 6      \* pushes in the Future Event List specification
MaxTime == 2      \* event times in the Future Event List specification
LongDur == 10     \* duration of A in the scenario INIT -> A -> COMPLETE

Draws == 0 .. (Scale - 1)
PFails == {0, Scale \div 2, Scale}
Durations == {0, MaxDur}

-----------------------------------------------------------------------------
(* Event model *)

NoTime == -1
NoPredicate == [vehicle |-> "None", activity |-> "None"]

Event(n) == [name |-> n, cls |-> "Event"]
Failure == [name |-> "FAILURE", cls |-> "Failure"]
Completor == [name |-> "COMPLETE", cls |-> "Completor"]

ScheduledEvent(id, n, template, t, p) ==
    [id |-> id, cls |-> "ScheduledEvent", name |-> n, template |-> template,
     time |-> t, predicate |-> p, seq |-> 0]

FailureEvent(id, n, template, t) ==
    [id |-> id, cls |-> "FailureEvent", name |-> n, template |-> template,
     time |-> t, predicate |-> NoPredicate, seq |-> 0]

CompletionEvent(id, n, template, t) ==
    [id |-> id, cls |-> "CompletionEvent", name |-> n, template |-> template,
     time |-> t, predicate |-> NoPredicate, seq |-> 0]

\* Order of the Future Event List: by time, then by insertion order.
EventLT(a, b) ==
    \/ a.time < b.time
    \/ a.time = b.time /\ a.seq < b.seq

-----------------------------------------------------------------------------
(* heapq on a 1-based sequence: position k here is index k-1 there *)

RECURSIVE SiftDown(_, _, _, _)
SiftDown(heap, startpos, pos, newitem) ==
    IF pos > startpos
    THEN LET parentpos == pos \div 2
         IN  IF EventLT(newitem, heap[parentpos])
             THEN SiftDown([heap EXCEPT ![pos] = heap[parentpos]],
                           startpos, parentpos, newitem)
             ELSE [heap EXCEPT ![pos] = newitem]
    ELSE [heap EXCEPT ![pos] = newitem]

RECURSIVE SiftUpLoop(_, _, _)
SiftUpLoop(heap, pos, newitem) ==
    LET endpos == Len(heap)
        leftpos == 2 * pos
        rightpos == leftpos + 1
    IN  IF leftpos <= endpos
        THEN LET childpos ==
                     IF rightpos <= endpos
                        /\ ~EventLT(heap[leftpos], heap[rightpos])
                     THEN rightpos ELSE leftpos
             IN  SiftUpLoop([heap EXCEPT ![pos] = heap[childpos]],
                            childpos, newitem)
        ELSE SiftDown(heap, 1, pos, newitem)

heappush(heap, item) ==
    SiftDown(Append(heap, item), 1, Len(heap) + 1, item)

\* heappop: <<returned item, remaining heap>>
heappop(heap) ==
    LET lastelt == heap[Len(heap)]
        rest == SubSeq(heap, 1, Len(heap) - 1)
    IN  IF rest = <<>>
        THEN <<lastelt, rest>>
        ELSE <<heap[1], SiftUpLoop(rest, 1, lastelt)>>

\* a schedule that appends and does not restore the heap order
scheduleAppend(heap, ev, n) == Append(heap, [ev EXCEPT !.seq = n])

\* Simulator.schedule: the event is stamped with its insertion order
schedule(heap, ev, n) == heappush(heap, [ev EXCEPT !.seq = n])

-----------------------------------------------------------------------------
(* Activities and ConOps (objects/activities.py) *)

Activity(n, start, end, duration, p_fail, failure) ==
    [cls |-> "Activity", name |-> n, start |-> start, end |-> end,
     duration |-> duration, p_fail |-> p_fail, failure |-> failure]

\* a PredicatedActivity has a predicate and no duration
PredicatedActivity(n, start, end, predicate, p_fail, failure) ==
    [cls |-> "PredicatedActivity", name |-> n, start |-> start, end |-> end,
     predicate |-> predicate, p_fail |-> p_fail, failure |-> failure]

\* ConOps.first and ConOps.after are lookups in ConOps.sequence;
\* HasKey tells whether the lookup succeeds (it raises KeyError otherwise)
HasKey(sequence, key) == key \in DOMAIN sequence
first(sequence) == sequence["INIT"]
after(sequence, current_event) == sequence[current_event.name]

\* Predicate.check(p, sim): the named vehicle is in the named activity
check(p, vs, ents) ==
    /\ p.predicate.vehicle \in ents
    /\ vs[p.predicate.vehicle].activity = p.predicate.activity

-----------------------------------------------------------------------------
(* The ConOps the runs are given *)

InPredicate(o, a) == [vehicle |-> o, activity |-> a]

\* INIT -> A -> COMPLETE
ConOpsSingle(pf1, d1) ==
    "INIT" :> Activity("A", Event("INIT"), Completor, d1, pf1, Failure)

\* INIT -> A -> A_DONE -> B -> COMPLETE
ConOpsTimed(pf1, d1, pf2) ==
    ("INIT" :> Activity("A", Event("INIT"), Event("A_DONE"), d1, pf1, Failure))
    @@ ("A_DONE" :> Activity("B", Event("A_DONE"), Completor, MaxDur, pf2, Failure))

\* INIT -> A -> COMPLETE, a failure of A routed to ABORT -> R -> COMPLETE
ConOpsRecover(pf1, d1, pf2) ==
    ("INIT" :> Activity("A", Event("INIT"), Completor, d1, pf1, Event("ABORT")))
    @@ ("ABORT" :> Activity("R", Event("ABORT"), Completor, MaxDur, pf2, Failure))

\* INIT -> W (until vehicle o is in activity a) -> GO -> B -> COMPLETE
ConOpsGated(o, a, pf1, pf2) ==
    ("INIT" :> PredicatedActivity("W", Event("INIT"), Event("GO"),
                                  InPredicate(o, a), pf1, Failure))
    @@ ("GO" :> Activity("B", Event("GO"), Completor, MaxDur, pf2, Failure))

\* INIT -> W (until vehicle o is in activity a) -> COMPLETE
ConOpsGatedEnd(o, a, pf1) ==
    "INIT" :> PredicatedActivity("W", Event("INIT"), Completor,
                                 InPredicate(o, a), pf1, Failure)

\* malformed: the end of A is no key of the ConOps
ConOpsLost(pf1, d1) ==
    "INIT" :> Activity("A", Event("INIT"), Event("LOST"), d1, pf1, Failure)

\* malformed: the end of B, the second activity, is no key of the ConOps
ConOpsLostLate(pf1, d1, pf2) ==
    ("INIT" :> Activity("A", Event("INIT"), Event("A_DONE"), d1, pf1, Failure))
    @@ ("A_DONE" :> Activity("B", Event("A_DONE"), Event("LOST"), MaxDur, pf2, Failure))

\* malformed: the start event of the INIT activity is no key of the ConOps
ConOpsBadInit(pf1, d1) ==
    "INIT" :> Activity("A", Event("BEGIN"), Completor, d1, pf1, Failure)

\* malformed: no INIT entry
ConOpsNoInit(pf1, d1) ==
    "BEGIN" :> Activity("A", Event("BEGIN"), Completor, d1, pf1, Failure)

WellFormedConOps(o) ==
    {ConOpsSingle(pf1, d1) : pf1 \in PFails, d1 \in Durations}
    \cup {ConOpsSingle(0, LongDur)}
    \cup {ConOpsTimed(x[1], x[2], x[3]) :
             x \in PFails \X Durations \X {0, Scale}}
    \cup {ConOpsRecover(x[1], x[2], x[3]) :
             x \in PFails \X Durations \X {0, Scale}}
    \cup {ConOpsGated(o, x[1], x[2], x[3]) :
             x \in {"W", "B"} \X PFails \X {0, Scale}}

MalformedConOps(o) ==
    {ConOpsLost(pf1, d1) : pf1 \in PFails, d1 \in Durations}
    \cup {ConOpsLostLate(pf1, 0, 0) : pf1 \in PFails}
    \cup {ConOpsBadInit(0, d1) : d1 \in Durations}
    \cup {ConOpsNoInit(0, 0)}
    \cup {ConOpsGatedEnd(o, "A", pf1) : pf1 \in PFails}

\* the ConOps of a vehicle whose predicates, if any, look at vehicle o
ConOpsFor(o) == WellFormedConOps(o) \cup MalformedConOps(o)

Vehicle(n, sequence) ==
    [name |-> n, conops |-> sequence, activity |-> "None",
     propload |-> PropLoad0, completed_conops |-> FALSE, failed |-> FALSE,
     trace |-> <<>>]

NoEvent == ScheduledEvent(0, "None", Event("None"), NoTime, NoPredicate)

-----------------------------------------------------------------------------
(* Tasks and the event loop *)

ActivityTask(v, start) ==
    [kind |-> "activity_handler", vehicle |-> v, start |-> start.id,
     startName |-> start.name, state |-> "created", error |-> "None"]

ProcessEventsTask ==
    [kind |-> "process_events", vehicle |-> "None", start |-> 0,
     startName |-> "None", state |-> "created", error |-> "None"]

Finished(t) == t.state \in {"done", "raised", "cancelled"}

Indices(s) == [i \in 1 .. Len(s) |-> i]

\* asyncio.gather(*self.tasks) in run: it watches the tasks the list holds
\* when it is called, the initial activity tasks and process_events
Gathered == 1 .. (Len(initial_vehicles) + 1)
Driver == Len(initial_vehicles) + 1

\* the outcome of run's await of gather, given the tasks' states
gather(ts) ==
    IF \E i \in Gathered : ts[i].state = "raised" THEN "raised"
    ELSE IF \E i \in Gathered : ts[i].state = "cancelled" THEN "cancelled"
    ELSE IF \A i \in Gathered : ts[i].state = "done" THEN "returned"
    ELSE "gather"

Resolve(ts) == IF runState = "gather" THEN gather(ts) ELSE runState

-----------------------------------------------------------------------------
(* Simulator.run *)

\* add_vehicle for the vehicles i.. of initial_vehicles, on the state st
RECURSIVE AddVehicles(_, _)
AddVehicles(i, st) ==
    IF i > Len(initial_vehicles) \/ st.raised
    THEN st
    ELSE LET v == vehicles[initial_vehicles[i].vehicle]
             start_time == initial_vehicles[i].start_time
         IN  IF ~HasKey(v.conops, "INIT")
             THEN [st EXCEPT !.entities = @ \cup {v.name}, !.raised = TRUE]
             ELSE LET activity == first(v.conops)
                      INIT == ScheduledEvent(st.nextId, activity.start.name,
                                             activity.start, start_time,
                                             NoPredicate)
                  IN  AddVehicles(i + 1,
                         [entities |-> st.entities \cup {v.name},
                          future |-> schedule(st.future, INIT, st.pushCount + 1),
                          pushCount |-> st.pushCount + 1,
                          nextId |-> st.nextId + 1,
                          tasks |-> Append(st.tasks, ActivityTask(v.name, INIT)),
                          raised |-> FALSE])

run ==
    /\ runState = "init"
    /\ LET st == AddVehicles(1, [entities |-> entities, future |-> future,
                                 pushCount |-> pushCount, nextId |-> nextId,
                                 tasks |-> tasks, raised |-> FALSE])
       IN  /\ entities' = st.entities
           /\ future' = st.future
           /\ pushCount' = st.pushCount
           /\ nextId' = st.nextId
           /\ IF st.raised
              THEN /\ tasks' = st.tasks
                   /\ ready' = ready
                   /\ runState' = "raised"
              ELSE /\ tasks' = Append(st.tasks, ProcessEventsTask)
                   /\ ready' = Indices(tasks')
                   /\ runState' = "gather"
    /\ UNCHANGED <<instance, initial_vehicles, vehicles, failures, predicates, clock,
                   success, queue_future, fired, event, new_event, lastScan, pc>>

-----------------------------------------------------------------------------
(* Initial states: a constructed Simulator and the vehicles handed to run *)

Other(n) == IF n = "V1" THEN "V2" ELSE "V1"

Scenarios ==
    {<<[start_time |-> 0, vehicle |-> "V1"]>>}
    \cup {<<[start_time |-> 0, vehicle |-> "V1"],
            [start_time |-> s, vehicle |-> "V2"]>> : s \in {0, LateStart}}

\* three vehicles started together: V1 and V2 wait for V3, V3 for V1
ThreeVehicles ==
    <<[start_time |-> 0, vehicle |-> "V1"],
      [start_time |-> 0, vehicle |-> "V2"],
      [start_time |-> 0, vehicle |-> "V3"]>>

FollowerConOps ==
    {ConOpsGated("V3", x[1], 0, x[2]) : x \in {"W", "B"} \X {0, Scale}}

LeaderConOps ==
    {ConOpsGated("V1", "W", 0, 0)}
    \cup {ConOpsTimed(0, d1, 0) : d1 \in Durations}

Init ==
    /\ instance = 1
    /\ \/ /\ initial_vehicles \in Scenarios
          /\ \E c1 \in ConOpsFor("V2"), c2 \in ConOpsFor("V1") :
                vehicles = ("V1" :> Vehicle("V1", c1))
                           @@ ("V2" :> Vehicle("V2", c2))
                           @@ ("V3" :> Vehicle("V3", ConOpsSingle(0, 0)))
          /\ (Len(initial_vehicles) = 1 =>
                  vehicles["V2"].conops = ConOpsSingle(0, 0))
       \/ /\ initial_vehicles = ThreeVehicles
          /\ \E c1 \in FollowerConOps, c2 \in FollowerConOps,
                c3 \in LeaderConOps :
                vehicles = ("V1" :> Vehicle("V1", c1))
                           @@ ("V2" :> Vehicle("V2", c2))
                           @@ ("V3" :> Vehicle("V3", c3))
    /\ entities = {}
    /\ failures = <<>>
    /\ future = <<>>
    /\ tasks = <<>>
    /\ predicates = <<>>
    /\ clock = 0
    /\ success = FALSE
    /\ queue_future = <<>>
    /\ ready = <<>>
    /\ fired = {}
    /\ event = NoEvent
    /\ new_event = NoEvent
    /\ lastScan = [pending |-> <<>>, checked |-> <<>>]
    /\ pc = "pop"
    /\ runState = "init"
    /\ nextId = 1
    /\ pushCount = 0

-----------------------------------------------------------------------------
(* activity_handler *)

\* the Bernoulli trial: u/Scale > 1 - p_fail/Scale
Trial(u, p_fail) == u > Scale - p_fail

\* an end time that forgets the clock
EndTimeDuration(clk, duration) == duration

\* time of the event that ends a timed activity
EndTime(clk, duration) == clk + duration

\* the concatenated log is not kept
log_failureDrop(log, time, vehicle, activity) == log

\* a log that keeps only the newest record
log_failureReplace(log, time, vehicle, activity) ==
    <<[Time |-> time, Vehicle |-> vehicle, Activity |-> activity]>>

log_failure(log, time, vehicle, activity) ==
    Append(log, [Time |-> time, Vehicle |-> vehicle, Activity |-> activity])

\* Vehicle.handle_failure and Vehicle.update_trace
handle_failure(v) == [v EXCEPT !.failed = TRUE]
update_trace(v, clk) ==
    [v EXCEPT !.trace = Append(@, [time |-> clk, activity |-> v.activity])]

\* the task raises: it ends without a result on the channel
Raises(t, v1, err) ==
    /\ tasks' = [tasks EXCEPT ![t].state = "raised", ![t].error = err]
    /\ vehicles' = [vehicles EXCEPT ![v1.name] = v1]
    /\ ready' = Tail(ready)
    /\ runState' = Resolve(tasks')
    /\ UNCHANGED <<queue_future, nextId>>

\* the task ends: it may have spawned the task of the next activity, and it
\* puts next_event on the channel, which wakes process_events
Emits(t, v1, next_event, spawn) ==
    LET tasks1 == [tasks EXCEPT ![t].state = "done"]
        tasks2 == IF spawn
                  THEN Append(tasks1, ActivityTask(v1.name, next_event))
                  ELSE tasks1
        spawned == IF spawn THEN <<Len(tasks2)>> ELSE <<>>
        wakes == tasks[Driver].state = "waiting"
    IN  /\ vehicles' = [vehicles EXCEPT ![v1.name] = update_trace(v1, clock)]
        /\ queue_future' = Append(queue_future, next_event)
        /\ tasks' = IF wakes
                    THEN [tasks2 EXCEPT ![Driver].state = "woken"]
                    ELSE tasks2
        /\ ready' = Tail(ready) \o spawned
                    \o (IF wakes THEN <<Driver>> ELSE <<>>)
        /\ nextId' = nextId + 1
        /\ runState' = Resolve(tasks')

activity_handler(t) ==
    /\ ready # <<>>
    /\ Head(ready) = t
    /\ tasks[t].kind = "activity_handler"
    /\ tasks[t].state = "woken"
    /\ LET v == vehicles[tasks[t].vehicle]
           start == [name |-> tasks[t].startName]
       IN  IF ~HasKey(v.conops, start.name)
           THEN /\ Raises(t, v, "KeyError")
                /\ failures' = failures
           ELSE \E u \in Draws :
                LET current_activity == after(v.conops, start)
                    failed == Trial(u, current_activity.p_fail)
                    current_end == IF failed THEN current_activity.failure
                                   ELSE current_activity.end
                    v0 == IF failed THEN handle_failure(v) ELSE v
                    v1 == [v0 EXCEPT !.activity = current_activity.name,
                                     !.propload = @ - 1]
                IN  /\ failures' =
                           IF failed
                           THEN log_failure(failures, clock, v.name,
                                            current_activity.name)
                           ELSE failures
                    /\ IF current_end.cls = "Failure"
                       THEN Emits(t, v1,
                                  FailureEvent(nextId,
                                               current_activity.failure.name,
                                               current_activity.failure, clock),
                                  FALSE)
                       ELSE IF current_end.cls = "Completor"
                       THEN IF current_activity.cls = "PredicatedActivity"
                            THEN Raises(t, v1, "AttributeError")
                            ELSE Emits(t, [v1 EXCEPT !.completed_conops = TRUE],
                                       CompletionEvent(nextId,
                                           current_activity.end.name,
                                           current_activity.end,
                                           EndTime(clock, current_activity.duration)),
                                       FALSE)
                       ELSE IF ~HasKey(v.conops, current_end.name)
                       THEN Raises(t, v1, "KeyError")
                       ELSE LET next_activity == after(v.conops, current_end)
                                next_event ==
                                    IF current_activity.cls = "PredicatedActivity"
                                    THEN ScheduledEvent(nextId,
                                             next_activity.start.name,
                                             next_activity.start, NoTime,
                                             current_activity.predicate)
                                    ELSE ScheduledEvent(nextId,
                                             next_activity.start.name,
                                             next_activity.start,
                                             EndTime(clock, current_activity.duration),
                                             NoPredicate)
                            IN  Emits(t, v1, next_event, TRUE)
    /\ UNCHANGED <<instance, initial_vehicles, entities, future, predicates, clock,
                   success, fired, event, new_event, lastScan, pc, pushCount>>

\* a task that does not wait for its start event
TaskStartNoWait(t) ==
    /\ ready # <<>>
    /\ Head(ready) = t
    /\ tasks[t].kind = "activity_handler"
    /\ tasks[t].state = "created"
    /\ tasks' = [tasks EXCEPT ![t].state = "woken"]
    /\ UNCHANGED <<instance, initial_vehicles, vehicles, entities, failures, future,
                   predicates, clock, success, queue_future, ready, fired,
                   event, new_event, lastScan, pc, runState, nextId, pushCount>>

\* a new task runs up to its await of start.wait()
TaskStart(t) ==
    /\ ready # <<>>
    /\ Head(ready) = t
    /\ tasks[t].kind = "activity_handler"
    /\ tasks[t].state = "created"
    /\ IF tasks[t].start \in fired
       THEN /\ tasks' = [tasks EXCEPT ![t].state = "woken"]
            /\ ready' = ready
       ELSE /\ tasks' = [tasks EXCEPT ![t].state = "waiting"]
            /\ ready' = Tail(ready)
    /\ UNCHANGED <<instance, initial_vehicles, vehicles, entities, failures, future,
                   predicates, clock, success, queue_future, fired, event,
                   new_event, lastScan, pc, runState, nextId, pushCount>>

-----------------------------------------------------------------------------
(* Simulator.process_events *)

Range(s) == {s[i] : i \in DOMAIN s}

\* a remove that leaves the list as it is
removeNothing(list, x) == list

\* list.remove: the first entry equal to x is removed
remove(list, x) ==
    LET k == CHOOSE i \in 1 .. Len(list) :
                 list[i] = x /\ \A j \in 1 .. (i - 1) : list[j] # x
    IN  SubSeq(list, 1, k - 1) \o SubSeq(list, k + 1, Len(list))

\* a re-scan that schedules a true entry without giving it the clock
RECURSIVE ScanPredicatesStale(_, _, _)
ScanPredicatesStale(i, st, clk) ==
    IF i > Len(st.predicates)
    THEN st
    ELSE LET p == st.predicates[i]
         IN  IF check(p, vehicles, entities)
             THEN ScanPredicatesStale(i + 1,
                      [predicates |-> remove(st.predicates, p),
                       future |-> schedule(st.future, p, st.pushCount + 1),
                       pushCount |-> st.pushCount + 1,
                       checked |-> Append(st.checked, p.id)],
                      clk)
             ELSE ScanPredicatesStale(i + 1,
                      [st EXCEPT !.checked = Append(@, p.id)], clk)

\* for p in self.predicates: ... self.predicates.remove(p)
\* the iteration reads position i of the list as it is at that moment
RECURSIVE ScanPredicates(_, _, _)
ScanPredicates(i, st, clk) ==
    IF i > Len(st.predicates)
    THEN st
    ELSE LET p == st.predicates[i]
         IN  IF check(p, vehicles, entities)
             THEN ScanPredicates(i + 1,
                      [predicates |-> remove(st.predicates, p),
                       future |-> schedule(st.future, [p EXCEPT !.time = clk],
                                           st.pushCount + 1),
                       pushCount |-> st.pushCount + 1,
                       checked |-> Append(st.checked, p.id)],
                      clk)
             ELSE ScanPredicates(i + 1,
                      [st EXCEPT !.checked = Append(@, p.id)], clk)

\* a classification that does not recognise a FailureEvent
ClassifyNoFailure(received) ==
    IF received.cls = "CompletionEvent" THEN "completion"
    ELSE IF received.predicate # NoPredicate THEN "predicate"
    ELSE "schedule"

\* a classification that treats a CompletionEvent as any other result
ClassifyNoCompletion(received) ==
    IF received.cls = "FailureEvent" THEN "failure"
    ELSE IF received.predicate # NoPredicate THEN "predicate"
    ELSE "schedule"

\* what process_events does with the result it received
Classify(received) ==
    IF received.cls = "FailureEvent" THEN "failure"
    ELSE IF received.cls = "CompletionEvent" THEN "completion"
    ELSE IF received.predicate # NoPredicate THEN "predicate"
    ELSE "schedule"

\* a cancel that reaches only the tasks run handed to gather
cancelGatheredTasks(ts) ==
    [i \in DOMAIN ts |->
        IF Finished(ts[i]) \/ i \notin Gathered
        THEN ts[i] ELSE [ts[i] EXCEPT !.state = "cancelled"]]

cancel_tasks(ts) ==
    [i \in DOMAIN ts |->
        IF Finished(ts[i]) THEN ts[i] ELSE [ts[i] EXCEPT !.state = "cancelled"]]

\* the top of the loop: the next event is popped and set, and the driver
\* awaits one result; an exhausted list ends the loop
process_events_pop ==
    /\ ready # <<>>
    /\ Head(ready) = Driver
    /\ pc = "pop"
    /\ IF future = <<>>
       THEN /\ success' = TRUE
            /\ pc' = "done"
            /\ tasks' = [tasks EXCEPT ![Driver].state = "done"]
            /\ ready' = Tail(ready)
            /\ runState' = Resolve(tasks')
            /\ UNCHANGED <<future, clock, fired, event>>
       ELSE LET popped == heappop(future)
                ev == popped[1]
                waiters == SelectSeq(Indices(tasks),
                               LAMBDA i : /\ tasks[i].kind = "activity_handler"
                                          /\ tasks[i].state = "waiting"
                                          /\ tasks[i].start = ev.id)
                tasks1 == [i \in DOMAIN tasks |->
                              IF i \in Range(waiters)
                              THEN [tasks[i] EXCEPT !.state = "woken"]
                              ELSE tasks[i]]
            IN  /\ event' = ev
                /\ future' = popped[2]
                /\ clock' = ev.time
                /\ fired' = fired \cup {ev.id}
                /\ pc' = "get"
                /\ IF queue_future = <<>>
                   THEN /\ tasks' = [tasks1 EXCEPT ![Driver].state = "waiting"]
                        /\ ready' = Tail(ready) \o waiters
                   ELSE /\ tasks' = tasks1
                        /\ ready' = ready \o waiters
                /\ UNCHANGED <<success, runState>>
    /\ UNCHANGED <<instance, initial_vehicles, vehicles, entities, failures, predicates,
                   queue_future, new_event, lastScan, nextId, pushCount>>

\* the driver resumes with one result: it classifies it and re-scans the
\* pending predicates, or cancels the tasks and returns on a FailureEvent
process_events_get ==
    /\ ready # <<>>
    /\ Head(ready) = Driver
    /\ pc = "get"
    /\ queue_future # <<>>
    /\ LET received == Head(queue_future)
           kind == Classify(received)
       IN  /\ new_event' = received
           /\ queue_future' = Tail(queue_future)
           /\ IF kind = "failure"
              THEN /\ tasks' = cancel_tasks(tasks)
                   /\ pc' = "done"
                   /\ ready' = SelectSeq(Tail(ready),
                                         LAMBDA i : ~Finished(tasks'[i]))
                   /\ runState' = Resolve(tasks')
                   /\ UNCHANGED <<predicates, future, pushCount, lastScan>>
              ELSE LET preds1 == IF kind = "predicate"
                                 THEN Append(predicates, received)
                                 ELSE predicates
                       scheduled == kind = "schedule"
                       scan == ScanPredicates(1,
                                   [predicates |-> preds1,
                                    future |-> IF scheduled
                                               THEN schedule(future, received,
                                                             pushCount + 1)
                                               ELSE future,
                                    pushCount |-> IF scheduled
                                                  THEN pushCount + 1
                                                  ELSE pushCount,
                                    checked |-> <<>>],
                                   clock)
                   IN  /\ predicates' = scan.predicates
                       /\ future' = scan.future
                       /\ pushCount' = scan.pushCount
                       /\ lastScan' = [pending |-> [i \in DOMAIN preds1 |-> preds1[i].id],
                                       checked |-> scan.checked]
                       /\ pc' = "pop"
                       /\ UNCHANGED <<tasks, ready, runState>>
    /\ UNCHANGED <<instance, initial_vehicles, vehicles, entities, failures, clock,
                   success, fired, event, nextId>>

-----------------------------------------------------------------------------

StartTask == \E t \in DOMAIN tasks : TaskStart(t)
HandleActivity == \E t \in DOMAIN tasks : activity_handler(t)

Next ==
    \/ run
    \/ StartTask
    \/ HandleActivity
    \/ process_events_pop
    \/ process_events_get

Spec == Init /\ [][Next]_vars

\* the event loop runs whatever is ready
FairSpec == Spec /\ WF_vars(Next)

-----------------------------------------------------------------------------
(* The Future Event List on its own: any pushes and pops *)

InitFEL ==
    /\ instance = 1
    /\ initial_vehicles = <<>>
    /\ vehicles = <<>>
    /\ entities = {}
    /\ failures = <<>>
    /\ future = <<>>
    /\ tasks = <<>>
    /\ predicates = <<>>
    /\ clock = 0
    /\ success = FALSE
    /\ queue_future = <<>>
    /\ ready = <<>>
    /\ fired = {}
    /\ event = NoEvent
    /\ new_event = NoEvent
    /\ lastScan = [pending |-> <<>>, checked |-> <<>>]
    /\ pc = "pop"
    /\ runState = "init"
    /\ nextId = 1
    /\ pushCount = 0

\* Simulator.schedule of a new event with time t
FelPush ==
    /\ pushCount < MaxPush
    /\ \E t \in 0 .. MaxTime :
          future' = schedule(future,
                             ScheduledEvent(nextId, "E", Event("E"), t, NoPredicate),
                             pushCount + 1)
    /\ pushCount' = pushCount + 1
    /\ nextId' = nextId + 1
    /\ UNCHANGED <<simVars, event>>

\* one step of "for event in self.future"
FelPop ==
    /\ future # <<>>
    /\ event' = heappop(future)[1]
    /\ future' = heappop(future)[2]
    /\ clock' = event'.time
    /\ UNCHANGED <<instance, initial_vehicles, vehicles, entities, failures, tasks,
                   predicates, success, queue_future, ready, fired, new_event,
                   lastScan, pc, runState, nextId, pushCount>>

NextFEL == FelPush \/ FelPop

SpecFEL == InitFEL /\ [][NextFEL]_vars

-----------------------------------------------------------------------------
(* Claims *)

\* the number of entries of heap equal to x
Count(heap, x) == Cardinality({i \in DOMAIN heap : heap[i] = x})

-----------------------------------------------------------------------------
(* The runs the claims speak of *)

Started == {initial_vehicles[i].vehicle : i \in DOMAIN initial_vehicles}

\* every event name the ConOps can reach from INIT is a key that leads to
\* the activity starting with that event
Closed(sequence) ==
    /\ HasKey(sequence, "INIT")
    /\ \A k \in DOMAIN sequence :
          /\ sequence[k].start.name = k
          /\ \A e \in {sequence[k].end, sequence[k].failure} :
                e.cls = "Event" => HasKey(sequence, e.name)

WellFormedRun == \A n \in Started : Closed(vehicles[n].conops)

AllPFailZero ==
    \A n \in Started :
        \A k \in DOMAIN vehicles[n].conops : vehicles[n].conops[k].p_fail = 0

RunEnded == runState \in {"returned", "raised", "cancelled"}

\* C2: with p_fail = 0 for every activity of well-formed ConOps, the run
\* ends with success = true and an empty failure log, whatever the draws.
C2_NoFailureSuccess ==
    (AllPFailZero /\ WellFormedRun /\ RunEnded) =>
        (success = TRUE /\ failures = <<>> /\ runState = "returned")

\* the first activity of vehicle n is a timed activity that fails with
\* probability 1 and whose failure event is the Failure terminal
CertainFirstFailure(n) ==
    /\ Closed(vehicles[n].conops)
    /\ first(vehicles[n].conops).cls = "Activity"
    /\ first(vehicles[n].conops).p_fail = Scale
    /\ first(vehicles[n].conops).failure = Failure

\* C3: a run of one vehicle whose first activity has p_fail = 1 ends with
\* success = false and exactly one failure record, at the start time of
\* the vehicle, whatever the draw.
C3_CertainFailure ==
    (/\ Len(initial_vehicles) = 1
     /\ CertainFirstFailure(initial_vehicles[1].vehicle)
     /\ RunEnded) =>
        /\ success = FALSE
        /\ Len(failures) = 1
        /\ failures[1].Time = initial_vehicles[1].start_time

-----------------------------------------------------------------------------

Aborted == new_event.cls = "FailureEvent"

ActivityTasks == {i \in DOMAIN tasks : tasks[i].kind = "activity_handler"}
Unblocked == {i \in ActivityTasks : tasks[i].state = "woken"}

\* C4: once the driver has received a FailureEvent every task of the
\* simulator is cancelled or finished, the loop has stopped with success
\* false, and no further event is popped or fired, whatever is still
\* pending in the Future Event List or the predicate list.
C4_FailureHaltsRun ==
    /\ [](Aborted =>
            /\ \A i \in DOMAIN tasks : Finished(tasks[i])
            /\ tasks[Driver].state = "cancelled"
            /\ pc = "done"
            /\ success = FALSE)
    /\ [][Aborted => UNCHANGED <<event, fired, future, predicates, clock,
                                 success, pc>>]_vars

\* a FailureEvent received while an event of the other vehicle is in the
\* Future Event List and its initial task waits for it
C4_Witness ==
    /\ Aborted
    /\ Len(initial_vehicles) = 2
    /\ future # <<>>
    /\ \E i \in ActivityTasks :
          i < Driver /\ tasks[i].state = "cancelled"

\* C5: after the driver has received a FailureEvent no task puts a result
\* on the channel, changes a vehicle or is created.
C5_NoLateResult ==
    [][Aborted => UNCHANGED <<queue_future, vehicles, tasks, failures>>]_vars

\* a FailureEvent received while a spawned task waits on a pending
\* predicate-gated event
C5_Witness ==
    /\ Aborted
    /\ predicates # <<>>
    /\ \E i \in ActivityTasks :
          i > Driver /\ tasks[i].state = "cancelled"

\* C6: an event is fired only when the result of the event fired before it
\* has been consumed; at most one activity task is unblocked, and it is the
\* task of the event fired last.
C6_OneUnblocked ==
    /\ [](/\ Cardinality(Unblocked) <= 1
          /\ \A i \in Unblocked : tasks[i].start = event.id
          /\ Len(queue_future) <= 1
          /\ (queue_future # <<>> => Unblocked = {}))
    /\ [][fired' # fired => (Unblocked = {} /\ queue_future = <<>>)]_vars

\* the second vehicle's task is unblocked while the first vehicle's
\* follow-on task waits
C6_Witness ==
    /\ Unblocked # {}
    /\ \E i \in Unblocked : i < Driver
    /\ \E j \in ActivityTasks : j > Driver /\ tasks[j].state = "waiting"

-----------------------------------------------------------------------------

Ids(s) == {s[i].id : i \in DOMAIN s}
Gated(e) == e.predicate # NoPredicate

\* C7: a predicate-gated event has no time and is not in the Future Event
\* List while it is pending; it enters the list only in a re-scan that
\* checked its predicate and found it true, with time = the clock of that
\* re-scan; no entry the re-scan checked and found true stays pending; and
\* the event is fired at that same clock value.
C7_GatedEventTime ==
    /\ [](/\ \A i \in DOMAIN predicates :
                /\ Gated(predicates[i])
                /\ predicates[i].time = NoTime
                /\ predicates[i].id \notin Ids(future)
          /\ \A i \in DOMAIN queue_future :
                Gated(queue_future[i]) => queue_future[i].time = NoTime
          /\ (pc = "pop" =>
                \A i \in DOMAIN predicates :
                    predicates[i].id \in Range(lastScan.checked)
                        => ~check(predicates[i], vehicles, entities)))
    /\ [][\A j \in DOMAIN future' :
             (Gated(future'[j]) /\ future'[j].id \notin Ids(future)) =>
                 /\ future'[j].time = clock
                 /\ check(future'[j], vehicles, entities)
                 /\ future'[j].id \in Range(lastScan'.checked)
                 /\ future'[j].id \in Ids(predicates) \cup {new_event'.id}]_vars
    /\ [][(event'.id # event.id /\ Gated(event')) =>
             (clock' = event'.time /\ clock' = clock)]_vars

\* a predicate-gated event that was pending since time 0 has been fired at
\* the later time at which its predicate became true
C7_Witness ==
    /\ Gated(event)
    /\ event.id \in fired
    /\ clock >= LateStart
    /\ \E n \in Started :
          \E k \in DOMAIN vehicles[n].trace :
              vehicles[n].trace[k] = [time |-> 0, activity |-> "W"]

\* C8: a re-scan checks every event that is pending when the re-scan
\* starts exactly once, in list order.
C8_ScanChecksAll == lastScan.checked = lastScan.pending

\* C9: when a lookup in a ConOps has failed (KeyError in an activity task)
\* the run has ended with an error.
C9_UnresolvedAborts ==
    (\E i \in DOMAIN tasks : tasks[i].error = "KeyError") => runState = "raised"

\* C10: the clock never decreases, and no event that is pending or on its
\* way to the driver has a time before the clock: every event of an earlier
\* time, zero-duration follow-ons included, was fired before the clock
\* advanced.
C10_ClockMonotone ==
    /\ [][clock' >= clock]_vars
    /\ [](/\ \A i \in DOMAIN future : future[i].time >= clock
          /\ \A i \in DOMAIN queue_future :
                queue_future[i].time # NoTime => queue_future[i].time >= clock)

\* the second vehicle's INIT is fired at the late start time after the
\* zero-duration follow-on of the first vehicle was fired at time 0
C10_Witness ==
    /\ Len(initial_vehicles) = 2
    /\ clock = LateStart
    /\ event.name = "INIT"
    /\ \E k \in DOMAIN vehicles["V1"].trace :
          vehicles["V1"].trace[k] = [time |-> 0, activity |-> "B"]

-----------------------------------------------------------------------------

\* the trace entry of a vehicle that is in activity a at time t
TraceEntry(t, a) == [time |-> t, activity |-> a]

\* C11: the run of the single vehicle V1 with the ConOps
\* INIT -> A (duration LongDur, p_fail 0) -> COMPLETE started at 0 ends with
\* success = true and the trace INIT@0, A@0, COMPLETE@LongDur: the
\* completion is recorded at clock + duration.
C11_ScenarioTrace ==
    (/\ Len(initial_vehicles) = 1
     /\ initial_vehicles[1].start_time = 0
     /\ vehicles["V1"].conops = ConOpsSingle(0, LongDur)
     /\ RunEnded) =>
        /\ success = TRUE
        /\ vehicles["V1"].trace = <<TraceEntry(0, "INIT"), TraceEntry(0, "A"),
                                    TraceEntry(LongDur, "COMPLETE")>>

-----------------------------------------------------------------------------

TasksOf(n) == {i \in ActivityTasks : tasks[i].vehicle = n}
Completed(n) == vehicles[n].completed_conops
Receives(cls) == new_event'.id # new_event.id /\ new_event'.cls = cls

\* C12: a CompletionEvent is never in the Future Event List nor in the
\* pending-predicate list; when the driver receives one, the vehicle of the
\* task that emitted it is marked completed, and a completed vehicle has
\* only finished tasks and gets no further task; the driver stays in its
\* loop, keeps the events that are pending, and its next step fires the
\* first of them.
C12_CompletionNotRescheduled ==
    /\ [](/\ \A i \in DOMAIN future : future[i].cls # "CompletionEvent"
          /\ \A i \in DOMAIN predicates :
                predicates[i].cls # "CompletionEvent"
          /\ \A n \in Started :
                Completed(n) => \A i \in TasksOf(n) : tasks[i].state = "done")
    /\ [][Receives("CompletionEvent") =>
             /\ \A i \in ActivityTasks :
                   tasks[i].start = event.id => Completed(tasks[i].vehicle)
             /\ new_event'.id \notin Ids(future') \cup Ids(predicates')
             /\ Ids(future) \subseteq Ids(future')
             /\ Ids(future') \subseteq Ids(future) \cup Ids(predicates)
             /\ pc' = "pop"
             /\ ready' # <<>> /\ Head(ready') = Driver
             /\ tasks' = tasks]_vars
    /\ [][\A n \in Started : Completed(n) => TasksOf(n)' = TasksOf(n)]_vars
    /\ [][(new_event.cls = "CompletionEvent" /\ pc = "pop" /\ future # <<>>) =>
             /\ event' = heappop(future)[1]
             /\ fired' = fired \cup {event'.id}
             /\ pc' = "get"]_vars

\* after the CompletionEvent of one vehicle was received, the driver has
\* fired the next event of the other vehicle, which has not completed
C12_Witness ==
    /\ new_event.cls = "CompletionEvent"
    /\ pc = "get"
    /\ \E n \in Started : Completed(n)
    /\ \E i \in ActivityTasks :
          /\ tasks[i].start = event.id
          /\ tasks[i].state = "woken"
          /\ ~Completed(tasks[i].vehicle)

-----------------------------------------------------------------------------

\* the step taken is a step of task i: the event loop runs the head of its
\* ready queue
Running(i) == ready # <<>> /\ Head(ready) = i
ActivityStep == \E i \in ActivityTasks : Running(i)

\* C13 (as stated): the Future Event List, the pending-predicate list, the
\* failure log and the clock are mutated only by the driver: no step of an
\* activity task changes any of the four.
C13_DriverOwnsShared ==
    [][ActivityStep => UNCHANGED <<future, predicates, failures, clock>>]_vars

\* C13 (amended): no step of an activity task changes the Future Event
\* List, the pending-predicate list or the clock; the failure log is changed
\* only by the step of an activity task, which appends the record (clock,
\* its vehicle, the activity it began) and marks the vehicle failed.
C13_DriverOwnsSchedule ==
    /\ [][ActivityStep => UNCHANGED <<future, predicates, clock>>]_vars
    /\ [][failures' # failures =>
             \E i \in ActivityTasks :
                 /\ Running(i)
                 /\ tasks[i].state = "woken"
                 /\ vehicles'[tasks[i].vehicle].failed
                 /\ failures' =
                       Append(failures,
                              [Time |-> clock,
                               Vehicle |-> tasks[i].vehicle,
                               Activity |-> vehicles'[tasks[i].vehicle].activity])]_vars

\* two failures have been logged by activity tasks while an event of the
\* other vehicle is pending on its predicate
C13_Witness ==
    /\ Len(failures) = 2
    /\ predicates # <<>>

-----------------------------------------------------------------------------

\* C14: every woken activity task whose lookups in the ConOps succeed ends
\* its step with exactly one result put on the channel, which then holds
\* that one item, whatever the kind of its activity and the class of its end
\* event.
C14_OneResultPerTask ==
    [][\A i \in ActivityTasks :
          (/\ Running(i)
           /\ tasks[i].state = "woken"
           /\ tasks'[i].state # "woken"
           /\ tasks'[i].error # "KeyError") =>
              /\ tasks'[i].state = "done"
              /\ Len(queue_future') = 1
              /\ queue_future = <<>>]_vars

-----------------------------------------------------------------------------

\* the step in which the driver classifies a result and re-scans, and the
\* pending-predicate list that re-scan starts from
ScanStep == pc = "get" /\ pc' = "pop"
PendingAtScan ==
    predicates \o (IF Classify(new_event') = "predicate"
                   THEN <<new_event'>> ELSE <<>>)

\* C15: of two pending predicate-gated events that are true in the same
\* driver iteration, the one appended later is not scheduled unless the one
\* appended earlier is scheduled before it (same clock, earlier insertion),
\* so that the Future Event List fires them in the order of the list.
C15_PredicateOrder ==
    [][ScanStep =>
          \A i, j \in DOMAIN PendingAtScan :
              (/\ i < j
               /\ check(PendingAtScan[i], vehicles, entities)
               /\ check(PendingAtScan[j], vehicles, entities)
               /\ PendingAtScan[j].id \in Ids(future')) =>
                  \E a, b \in DOMAIN future' :
                      /\ future'[a].id = PendingAtScan[i].id
                      /\ future'[b].id = PendingAtScan[j].id
                      /\ EventLT(future'[a], future'[b])]_vars

-----------------------------------------------------------------------------

\* the activity that task i begins when it is woken
ActivityOf(i) ==
    after(vehicles[tasks[i].vehicle].conops, [name |-> tasks[i].startName])

\* C16: the failure log only grows, by one record at a time, stamped with
\* the clock at which the event was fired; a task that delivers a result
\* adds the record (clock, its vehicle, its activity) exactly when its result
\* is the failure event of its activity, that is when its trial failed; no
\* other step changes the log; and the times of the log are non-decreasing.
C16_FailureLogExact ==
    /\ [](\A k \in 1 .. (Len(failures) - 1) :
              failures[k].Time <= failures[k + 1].Time)
    /\ [][\/ failures' = failures
          \/ /\ Len(failures') = Len(failures) + 1
             /\ SubSeq(failures', 1, Len(failures)) = failures
             /\ failures'[Len(failures')].Time = clock
             /\ clock' = clock]_vars
    /\ [][\A i \in ActivityTasks :
             (Running(i) /\ tasks[i].state = "woken"
                         /\ tasks'[i].state = "done") =>
                 IF queue_future'[Len(queue_future')].template
                        = ActivityOf(i).failure
                 THEN failures' = Append(failures,
                                         [Time |-> clock,
                                          Vehicle |-> tasks[i].vehicle,
                                          Activity |-> ActivityOf(i).name])
                 ELSE failures' = failures]_vars
    /\ [][(\A i \in ActivityTasks : tasks'[i].state = tasks[i].state)
             => failures' = failures]_vars

\* two records, the second of a later time: the activity failed at 0, its
\* recovery failed when its start event was fired
C16_Witness ==
    /\ Len(failures) = 2
    /\ failures[1].Time < failures[2].Time
    /\ failures[1].Activity # failures[2].Activity

-----------------------------------------------------------------------------

\* the event loop has nothing left to run
Quiescent == runState # "init" /\ ready = <<>>

\* C17: in a run of vehicles with well-formed ConOps, when nothing is left
\* to run the driver loop has stopped and run has ended, either with the
\* Future Event List exhausted and success = true or with a FailureEvent
\* received and success = false: the driver never stays blocked.
C17_Terminates ==
    (WellFormedRun /\ Quiescent) =>
        /\ pc = "done"
        /\ RunEnded
        /\ \/ success = TRUE /\ future = <<>>
           \/ success = FALSE /\ Aborted

-----------------------------------------------------------------------------

\* C18: when the run has ended with success = true, no predicate-gated
\* event is pending and every vehicle added to the simulator has completed
\* its ConOps.
C18_SuccessMeansCompleted ==
    (RunEnded /\ success = TRUE) =>
        /\ predicates = <<>>
        /\ \A n \in entities : Completed(n)

-----------------------------------------------------------------------------

\* the driver is at the top of its loop and is the task that runs next
AboutToPop == pc = "pop" /\ Running(Driver)

Suspended == {i \in ActivityTasks : tasks[i].state = "waiting"}
PendingIds == Ids(future) \cup Ids(predicates)

\* C19: when the driver is about to pop, every activity task that has not
\* finished is suspended on its start event, every event in the Future Event
\* List or in the pending-predicate list has exactly one suspended task
\* waiting on it, every suspended task waits on an event of one of the two
\* lists, and no event is in the lists twice.
C19_TasksMatchEvents ==
    AboutToPop =>
        /\ \A i \in ActivityTasks : tasks[i].state \in {"waiting", "done"}
        /\ \A id \in PendingIds :
              Cardinality({i \in Suspended : tasks[i].start = id}) = 1
        /\ \A i \in Suspended : tasks[i].start \in PendingIds
        /\ Cardinality(PendingIds) = Len(future) + Len(predicates)
        /\ Cardinality(Suspended) = Len(future) + Len(predicates)

\* the driver is about to pop while one task waits on an event of the
\* Future Event List and two wait on pending predicate-gated events
C19_Witness ==
    /\ AboutToPop
    /\ Len(future) = 1
    /\ Len(predicates) = 2
    /\ Cardinality(Suspended) = 3

-----------------------------------------------------------------------------
(* A later Simulator *)

\* Simulator() with default arguments, constructed after the run of the
\* first instance has ended, and the vehicle its run is given.  The fields
\* with a default_factory and the immutable defaults are the new instance's
\* own; future's default is the one FutureEventList() object the class
\* statement made, which every instance refers to.
Simulator ==
    /\ instance = 1
    /\ RunEnded
    /\ instance' = instance + 1
    /\ initial_vehicles' = <<[start_time |-> 0, vehicle |-> "V1"]>>
    /\ \E d1 \in Durations :
          vehicles' = ("V1" :> Vehicle("V1", ConOpsSingle(0, d1)))
                      @@ ("V2" :> Vehicle("V2", ConOpsSingle(0, 0)))
                      @@ ("V3" :> Vehicle("V3", ConOpsSingle(0, 0)))
    /\ entities' = {}
    /\ failures' = <<>>
    /\ tasks' = <<>>
    /\ predicates' = <<>>
    /\ clock' = 0
    /\ success' = FALSE
    /\ queue_future' = <<>>
    /\ ready' = <<>>
    /\ event' = NoEvent
    /\ new_event' = NoEvent
    /\ lastScan' = [pending |-> <<>>, checked |-> <<>>]
    /\ pc' = "pop"
    /\ runState' = "init"
    /\ UNCHANGED <<future, fired, nextId, pushCount>>

NextRerun == Next \/ Simulator

SpecRerun == Init /\ [][NextRerun]_vars

\* C20: a later Simulator instance starts with an empty Future Event List,
\* and every event its driver pops is the start event of one of its own
\* tasks, never an event left by the earlier instance.
C20_OwnEventList ==
    instance > 1 =>
        /\ (runState = "init" => future = <<>>)
        /\ (event # NoEvent =>
               \E i \in ActivityTasks : tasks[i].start = event.id)

====
